---- MODULE Spec2Model ----
(***************************************************************************)
(* A model of renderer_skeleton.py: the Sphere and Triangle renderables,   *)
(* the Light and PhongLight lights, and the Renderer (raycast,             *)
(* get_lighting, render).                                                  *)
(*                                                                         *)
(* Numbers.  Python floats are modelled as fixed-point integers: the real  *)
(* number r is the integer r * Unit.  Products and quotients are rounded   *)
(* down to the grid, sqrt is the integer square root.  A vec3 is a tuple   *)
(* <<x, y, z>> of such integers.  A Python exception is the value Raised.  *)
(* The grid is fine enough that the rounding of a normalised vector moves  *)
(* a colour channel by less than 1/255.                                    *)
(***************************************************************************)
EXTENDS Integers, Sequences, FiniteSets, TLC

VARIABLES
    renderer,   \* the Renderer object: [camera, lights, renderables]
    scene0,     \* the renderer as it was when the scene description ended
    phase,      \* "setup" while the scene is described, then "ready" or "called"
    call,       \* the call in progress: [name, args]
    value,      \* the vec3 or colour triple the call returned, or Raised
    isect       \* the RayIntersection, None or False the call returned or was given

vars == <<renderer, scene0, phase, call, value, isect>>

(***************************************************************************)
(* Bounds of the model.                                                    *)
(***************************************************************************)
Half == 500           \* fixed-point value of 0.5: the grid has 2 * Half steps per 1.0
MaxLights == 2        \* longest light list described
MaxRenderables == 2   \* longest renderable list described
MaxWidth == 2         \* largest width and height passed to render

Unit == 2 * Half      \* fixed-point value of 1.0

(***************************************************************************)
(* Program constants.                                                      *)
(***************************************************************************)
MaxChannel == 255     \* the factor in int(lighting.x*255), and the white of the background

(***************************************************************************)
(* Scalar arithmetic.                                                      *)
(***************************************************************************)
Max(a, b) == IF a >= b THEN a ELSE b
Min(a, b) == IF a <= b THEN a ELSE b

FMul(a, b) == (a * b) \div Unit
FDiv(a, b) == (a * Unit) \div b

RECURSIVE ISqrtIter(_, _, _)
ISqrtIter(n, lo, hi) ==
    IF lo >= hi THEN lo
    ELSE LET mid == (lo + hi + 1) \div 2
         IN  IF mid * mid <= n THEN ISqrtIter(n, mid, hi)
                               ELSE ISqrtIter(n, lo, mid - 1)

\* math.sqrt on the grid: the largest s with (s/Unit)^2 <= a/Unit
sqrt(a) == ISqrtIter(a * Unit, 0, Min(a * Unit, 46340))

(***************************************************************************)
(* helpers.vec3                                                            *)
(***************************************************************************)
Raised == <<"ZeroDivisionError">>

vec3(x, y, z) == <<x, y, z>>
vec3_1(c) == <<c, c, c>>
Zero == vec3_1(0)

add(u, v) == <<u[1] + v[1], u[2] + v[2], u[3] + v[3]>>
sub(u, v) == <<u[1] - v[1], u[2] - v[2], u[3] - v[3]>>
dot(u, v) == FMul(u[1], v[1]) + FMul(u[2], v[2]) + FMul(u[3], v[3])
cross(u, v) == <<FMul(u[2], v[3]) - FMul(u[3], v[2]),
                 FMul(u[3], v[1]) - FMul(u[1], v[3]),
                 FMul(u[1], v[2]) - FMul(u[2], v[1])>>
scale(k, v) == <<FMul(k, v[1]), FMul(k, v[2]), FMul(k, v[3])>>
length(v) == sqrt(dot(v, v))
\* v / n for a plain number n
divn(v, n) ==
    IF n = 0 THEN Raised
    ELSE <<v[1] \div n, v[2] \div n, v[3] \div n>>
\* v / |v|: the zero vector cannot be normalised
norm(v) ==
    LET l == length(v)
    IN  IF l = 0 THEN Raised
        ELSE <<FDiv(v[1], l), FDiv(v[2], l), FDiv(v[3], l)>>

(***************************************************************************)
(* helpers.RayIntersection, and the values None and False.  All are        *)
(* records of one shape; kind tells them apart.                            *)
(***************************************************************************)
NoObject == [id |-> 0, origin |-> Zero, radius |-> 0]

RayIntersection(origin, direction, renderable, location, len) ==
    [kind |-> "RayIntersection", origin |-> origin, direction |-> direction,
     renderable |-> renderable, location |-> location, length |-> len]

Blank(kind) ==
    [kind |-> kind, origin |-> Zero, direction |-> Zero,
     renderable |-> NoObject, location |-> Zero, length |-> 0]

None == Blank("None")              \* Sphere.intersect: no intersection
False == Blank("False")            \* Renderer.raycast: no hit
RaisedRec == Blank("Raised")       \* the call raised

IsHit(r) == r.kind = "RayIntersection"

(***************************************************************************)
(* class Sphere.  id stands for the identity of the Python object: it is   *)
(* the object's position in renderer.renderables.                          *)
(***************************************************************************)
Sphere(id, origin, radius) == [id |-> id, origin |-> origin, radius |-> radius]

\* the coefficients of the quadratic and its discriminant
Sphere_a(self, origin, direction) == dot(direction, direction)
Sphere_b(self, origin, direction) == 2 * dot(direction, sub(origin, self.origin))
Sphere_c(self, origin, direction) ==
    dot(sub(origin, self.origin), sub(origin, self.origin))
        - FMul(self.radius, self.radius)
Sphere_D(a, b, c) == FMul(b, b) - 4 * FMul(a, c)

\* x1 = (-b + math.sqrt(D)) / (2*a) and x2 = (-b - math.sqrt(D)) / (2*a)
Sphere_x1(a, b, D) == FDiv(-b + sqrt(D), 2 * a)
Sphere_x2(a, b, D) == FDiv(-b - sqrt(D), 2 * a)

\* a wrong root choice: the far root, the near one only as a fallback
Sphere_len_far(x1, x2) == IF Max(x1, x2) < 0 THEN Min(x1, x2) ELSE Max(x1, x2)

\* len = min(x1,x2); if(len < 0): len = max(x1,x2)
Sphere_len(x1, x2) == IF Min(x1, x2) < 0 THEN Max(x1, x2) ELSE Min(x1, x2)

Sphere_intersect(self, origin, direction) ==
    LET a == Sphere_a(self, origin, direction)
        b == Sphere_b(self, origin, direction)
        c == Sphere_c(self, origin, direction)
        D == Sphere_D(a, b, c)
    IN  IF D >= 0
        THEN IF a = 0 THEN RaisedRec
             ELSE LET len == Sphere_len(Sphere_x1(a, b, D), Sphere_x2(a, b, D))
                  IN  IF len < 0 THEN None
                      ELSE RayIntersection(origin, direction, self,
                                           add(scale(len, direction), origin), len)
        ELSE None

\* (location - self.origin).norm()
Sphere_normal(self, location) == norm(sub(location, self.origin))

(***************************************************************************)
(* class Triangle.  __init__ stores the vertices and computes normal.      *)
(***************************************************************************)
\* (self.v2 - self.v1).cross(self.v3 - self.v3).norm()
Triangle_normal(v1, v2, v3) == norm(cross(sub(v2, v1), sub(v3, v3)))

Triangle(v1, v2, v3) ==
    [v1 |-> v1, v2 |-> v2, v3 |-> v3, normal |-> Triangle_normal(v1, v2, v3)]

(***************************************************************************)
(* classes Light and PhongLight.  A light is a record of one shape; a      *)
(* field its class does not set is Zero.                                   *)
(***************************************************************************)
Light(pos, col) ==
    [kind |-> "Light", position |-> pos, colour |-> col,
     specular |-> Zero, diffuse |-> Zero]

PhongLight(pos, specular, diffuse) ==
    [kind |-> "PhongLight", position |-> pos, colour |-> Zero,
     specular |-> specular, diffuse |-> diffuse]

Light_illumination(self, renderable, location, R) == self.colour

\* a wrong diffuse factor: the dot product taken as it is
PhongLight_factor_signed(d) == d

\* max(0, direct.dot(norm))
PhongLight_factor(d) == Max(0, d)

PhongLight_illumination(self, renderable, location, R) ==
    LET n == Sphere_normal(renderable, location)
        direct == norm(sub(self.position, location))
    IN  IF n = Raised \/ direct = Raised THEN Raised
        ELSE scale(PhongLight_factor(dot(direct, n)), self.specular)

\* light.illumination(...), dispatched on the light's class
illumination(light, renderable, location, R) ==
    IF light.kind = "PhongLight"
    THEN PhongLight_illumination(light, renderable, location, R)
    ELSE Light_illumination(light, renderable, location, R)

(***************************************************************************)
(* class Renderer.  self is the record [camera, lights, renderables].      *)
(***************************************************************************)
Renderer_init == [camera |-> vec3(0, 0, 0), lights |-> <<>>, renderables |-> <<>>]

\* [r.intersect(origin, d_norm) for r in self.renderables if r not in exclude]
intersections(self, origin, d_norm, exclude) ==
    LET rs == SelectSeq(self.renderables, LAMBDA r : r \notin exclude)
    IN  [i \in 1..Len(rs) |-> Sphere_intersect(rs[i], origin, d_norm)]

\* min(seq, key=lambda x:x.length) over seq[i..]: the first of the least
RECURSIVE min_length(_, _, _)
min_length(seq, i, best) ==
    IF i > Len(seq) THEN best
    ELSE min_length(seq, i + 1, IF seq[i].length < best.length THEN seq[i] ELSE best)

\* a wrong choice: the first hit in list order, whatever its distance
nearest_first(seq) == seq[1]

nearest(seq) == min_length(seq, 2, seq[1])

raycast(self, origin, direction, exclude) ==
    LET d_norm == norm(direction)
    IN  IF d_norm = Raised THEN RaisedRec
        ELSE LET all == intersections(self, origin, d_norm, exclude)
                 hits == SelectSeq(all, IsHit)
             IN  IF \E i \in 1..Len(all) : all[i] = RaisedRec THEN RaisedRec
                 ELSE IF hits = <<>> THEN False
                 ELSE nearest(hits)

\* output once the lights from position i on have been added to it
RECURSIVE add_lights(_, _, _, _)
add_lights(self, ray_intersection, i, output) ==
    IF i > Len(self.lights) THEN output
    ELSE LET c == illumination(self.lights[i], ray_intersection.renderable,
                               ray_intersection.location, self)
         IN  IF c = Raised THEN Raised
             ELSE add_lights(self, ray_intersection, i + 1, add(output, c))

\* a wrong accumulation: the sum, not divided by the light count
accumulate_sum(output, n) == IF n = 0 THEN Raised ELSE output

\* output / len(self.lights)
accumulate(output, n) == divn(output, n)

get_lighting(self, ray_intersection) ==
    LET output == add_lights(self, ray_intersection, 1, vec3_1(0))
    IN  IF output = Raised THEN Raised
        ELSE accumulate(output, Len(self.lights))

\* vec3(x/width - 0.5, y/height - 0.5, 1)
camera_ray(x, y, width, height) ==
    vec3((x * Unit) \div width - Half, (y * Unit) \div height - Half, Unit)

\* a wrong conversion: rounding to the nearest integer
int255_round(c) == (2 * c * MaxChannel + Unit) \div (2 * Unit)

\* int(c*255): truncation toward zero
int255(c) ==
    IF c >= 0 THEN (c * MaxChannel) \div Unit
              ELSE -(((-c) * MaxChannel) \div Unit)

\* a wrong background: black
background_black == <<0, 0, 0>>

\* return (255,255,255)
background == <<MaxChannel, MaxChannel, MaxChannel>>

render(self, x, y, width, height) ==
    LET result == raycast(self, self.camera, camera_ray(x, y, width, height), {})
    IN  IF result = RaisedRec THEN Raised
        ELSE IF IsHit(result)
        THEN LET lighting == get_lighting(self, result)
             IN  IF lighting = Raised THEN Raised
                 ELSE <<int255(lighting[1]), int255(lighting[2]), int255(lighting[3])>>
        ELSE background

(***************************************************************************)
(* The inputs the calls are made with.                                     *)
(***************************************************************************)
\* the PhongLight of __main__, a PhongLight at the point where the central
\* ray meets the sphere of __main__, and a constant Light
LightChoices ==
    { PhongLight(vec3(Half, -Unit, 3 * Unit + Half), vec3(0, 0, Unit), vec3(0, 0, Unit)),
      PhongLight(vec3(0, 0, 3 * Unit + Half), vec3_1(Unit), vec3(Unit, Half, 0)),
      Light(vec3(0, 0, 0), vec3(Unit, Half, Half)) }

\* the sphere of __main__ and a larger sphere behind it: <<origin, radius>>
SphereChoices ==
    { <<vec3(0, 0, 4 * Unit), Half>>,
      <<vec3(0, 0, 8 * Unit), Unit>> }

\* the camera, and the centre of the sphere of __main__
Origins == { vec3(0, 0, 0), vec3(0, 0, 4 * Unit) }
\* ray directions for raycast, which normalises them
Directions == { vec3(0, 0, Unit), vec3(0, 0, -Unit) }
\* ray directions for Sphere.intersect: two more that are not unit vectors,
\* the second the camera ray of pixel (0, 0)
IntersectDirections == Directions \cup { vec3(0, 0, 2 * Unit), vec3(-Half, -Half, Unit) }

\* vertex triples, none collinear
TriangleChoices ==
    { <<vec3(0, 0, 0), vec3(Unit, 0, 0), vec3(0, Unit, 0)>>,
      <<vec3(0, 0, 4 * Unit), vec3(Unit, 0, 4 * Unit), vec3(0, Unit, 5 * Unit)>> }

Renderables == { renderer.renderables[i] : i \in 1..Len(renderer.renderables) }

(***************************************************************************)
(* The state machine.                                                      *)
(***************************************************************************)
Call(name, args) == [name |-> name, args |-> args]

\* renderer = Renderer()
Init ==
    /\ renderer = Renderer_init
    /\ scene0 = Renderer_init
    /\ phase = "setup"
    /\ call = Call("Renderer", <<>>)
    /\ value = Zero
    /\ isect = None

\* scene description: one more light in renderer.lights
AddLight(l) ==
    /\ phase = "setup"
    /\ Len(renderer.lights) < MaxLights
    /\ renderer' = [renderer EXCEPT !.lights = Append(@, l)]
    /\ call' = Call("lights", <<>>)
    /\ value' = Zero
    /\ isect' = None
    /\ UNCHANGED <<scene0, phase>>

\* scene description: one more Sphere in renderer.renderables
AddRenderable(origin, radius) ==
    /\ phase = "setup"
    /\ Len(renderer.renderables) < MaxRenderables
    /\ renderer' = [renderer EXCEPT !.renderables =
                       Append(@, Sphere(Len(@) + 1, origin, radius))]
    /\ call' = Call("renderables", <<>>)
    /\ value' = Zero
    /\ isect' = None
    /\ UNCHANGED <<scene0, phase>>

\* Triangle(v1, v2, v3): value is the normal attribute the constructor sets
NewTriangle(v1, v2, v3) ==
    /\ phase = "setup"
    /\ call' = Call("Triangle", <<v1, v2, v3>>)
    /\ value' = Triangle(v1, v2, v3).normal
    /\ isect' = None
    /\ UNCHANGED <<renderer, scene0, phase>>

\* the scene is complete: the pixel loop begins
StartRender ==
    /\ phase = "setup"
    /\ phase' = "ready"
    /\ scene0' = renderer
    /\ call' = Call("none", <<>>)
    /\ value' = Zero
    /\ isect' = None
    /\ UNCHANGED renderer

\* a wrong render: it consumes the last light of the list
RenderPop(x, y, width, height) ==
    /\ phase = "ready"
    /\ phase' = "called"
    /\ call' = Call("render", <<x, y, width, height>>)
    /\ value' = render(renderer, x, y, width, height)
    /\ isect' = raycast(renderer, renderer.camera, camera_ray(x, y, width, height), {})
    /\ renderer' = [renderer EXCEPT !.lights =
                       IF @ = <<>> THEN @ ELSE SubSeq(@, 1, Len(@) - 1)]
    /\ UNCHANGED scene0

\* renderer.render(x, y, width, height); isect is its local variable result
Render(x, y, width, height) ==
    /\ phase = "ready"
    /\ phase' = "called"
    /\ call' = Call("render", <<x, y, width, height>>)
    /\ value' = render(renderer, x, y, width, height)
    /\ isect' = raycast(renderer, renderer.camera, camera_ray(x, y, width, height), {})
    /\ UNCHANGED <<renderer, scene0>>

\* renderer.raycast(origin, direction, exclude)
Raycast(origin, direction, exclude) ==
    /\ phase = "ready"
    /\ phase' = "called"
    /\ call' = Call("raycast", <<origin, direction, exclude>>)
    /\ isect' = raycast(renderer, origin, direction, exclude)
    /\ value' = Zero
    /\ UNCHANGED <<renderer, scene0>>

\* renderer.renderables[i].intersect(origin, direction)
Intersect(i, origin, direction) ==
    /\ phase = "ready"
    /\ i \in 1..Len(renderer.renderables)
    /\ phase' = "called"
    /\ call' = Call("intersect", <<i, origin, direction>>)
    /\ isect' = Sphere_intersect(renderer.renderables[i], origin, direction)
    /\ value' = Zero
    /\ UNCHANGED <<renderer, scene0>>

\* renderer.get_lighting(ray_intersection), for a record raycast returned
GetLighting(ray_intersection) ==
    /\ phase = "ready"
    /\ IsHit(ray_intersection)
    /\ phase' = "called"
    /\ call' = Call("get_lighting", <<>>)
    /\ isect' = ray_intersection
    /\ value' = get_lighting(renderer, ray_intersection)
    /\ UNCHANGED <<renderer, scene0>>

\* renderer.lights[i].illumination(renderable, location, renderer), for the
\* renderable and location of a record raycast returned
Illumination(i, ray_intersection) ==
    /\ phase = "ready"
    /\ IsHit(ray_intersection)
    /\ i \in 1..Len(renderer.lights)
    /\ phase' = "called"
    /\ call' = Call("illumination", <<i>>)
    /\ isect' = ray_intersection
    /\ value' = illumination(renderer.lights[i], ray_intersection.renderable,
                             ray_intersection.location, renderer)
    /\ UNCHANGED <<renderer, scene0>>

\* the caller takes the result; the renderer is ready for the next call
Return ==
    /\ phase = "called"
    /\ phase' = "ready"
    /\ call' = Call("none", <<>>)
    /\ value' = Zero
    /\ isect' = None
    /\ UNCHANGED <<renderer, scene0>>

Next ==
    \/ \E l \in LightChoices : AddLight(l)
    \/ \E s \in SphereChoices : AddRenderable(s[1], s[2])
    \/ \E t \in TriangleChoices : NewTriangle(t[1], t[2], t[3])
    \/ StartRender
    \/ \E width \in 1..MaxWidth, height \in 1..MaxWidth :
          \E x \in 0..(width - 1), y \in 0..(height - 1) : Render(x, y, width, height)
    \/ \E origin \in Origins, direction \in Directions, exclude \in SUBSET Renderables :
          Raycast(origin, direction, exclude)
    \/ \E i \in 1..MaxRenderables, origin \in Origins, direction \in IntersectDirections :
          Intersect(i, origin, direction)
    \/ \E origin \in Origins, direction \in Directions, exclude \in SUBSET Renderables :
          GetLighting(raycast(renderer, origin, direction, exclude))
    \/ \E i \in 1..MaxLights, origin \in Origins, direction \in Directions :
          Illumination(i, raycast(renderer, origin, direction, {}))
    \/ Return

Spec == Init /\ [][Next]_vars

(***************************************************************************)
(* What the claims speak of, read off the state of a call.                 *)
(***************************************************************************)
Called(name) == phase = "called" /\ call.name = name

\* the lights whose colour channels all lie in [0, 1]
WellFormedLights ==
    \A i \in 1..Len(renderer.lights) : \A k \in 1..3 :
        /\ renderer.lights[i].colour[k] \in 0..Unit
        /\ renderer.lights[i].specular[k] \in 0..Unit
        /\ renderer.lights[i].diffuse[k] \in 0..Unit

\* Python's round(c * 255) of a channel clamped to [0, 1]: to the nearest
\* integer, a tie to the even one
RoundClamp255(c) ==
    LET n == Max(0, Min(Unit, c)) * MaxChannel
        q == n \div Unit
        r == n % Unit
    IN  IF 2 * r > Unit THEN q + 1
        ELSE IF 2 * r < Unit THEN q
        ELSE IF q % 2 = 0 THEN q ELSE q + 1

\* the two roots of the quadratic of the intersect call in progress
CallSphere == renderer.renderables[call.args[1]]
CallA == Sphere_a(CallSphere, call.args[2], call.args[3])
CallB == Sphere_b(CallSphere, call.args[2], call.args[3])
CallD == Sphere_D(CallA, CallB, Sphere_c(CallSphere, call.args[2], call.args[3]))
CallRoots == { Sphere_x1(CallA, CallB, CallD), Sphere_x2(CallA, CallB, CallD) }
SmallerRoot == CHOOSE r \in CallRoots : \A q \in CallRoots : r <= q
LargerRoot == CHOOSE r \in CallRoots : \A q \in CallRoots : r >= q

\* the hit of each renderable raycast may return, for the raycast call in
\* progress
CallCandidates ==
    { Sphere_intersect(r, call.args[1], norm(call.args[2])) :
        r \in Renderables \ call.args[3] } \ { None }

\* the contribution of light i at the record given to the call in progress
Contribution(i) ==
    illumination(renderer.lights[i], isect.renderable, isect.location, renderer)

RECURSIVE SumOfContributions(_)
SumOfContributions(n) ==
    IF n = 0 THEN Zero ELSE add(SumOfContributions(n - 1), Contribution(n))

\* the cosine between the surface normal and the direction to light i, at
\* the record given to the call in progress
Cosine(i) ==
    dot(norm(sub(renderer.lights[i].position, isect.location)),
        Sphere_normal(isect.renderable, isect.location))

(***************************************************************************)
(* C1: render returns exactly (255,255,255) whenever the raycast of the    *)
(* camera ray reports no hit, in every scene.                              *)
(***************************************************************************)
C1_MissIsWhite ==
    (Called("render") /\ isect = False) => value = <<255, 255, 255>>

\* a ray that misses the spheres of a scene with spheres and lights
C1_Witness ==
    /\ Called("render") /\ isect = False
    /\ renderer.renderables # <<>> /\ renderer.lights # <<>>

C3_NoLightsBlack ==
    ((Called("get_lighting") \/ Called("render")) /\ IsHit(isect)
        /\ renderer.lights = <<>>) => value = <<0, 0, 0>>

(***************************************************************************)
(* C4: render of every pixel of every well-formed scene returns a colour   *)
(* triple and never raises.  Stated for the scenes with at least one       *)
(* light: with none, the division of C3 raises already.                    *)
(***************************************************************************)
C4_RenderIsTotal ==
    (Called("render") /\ renderer.lights # <<>> /\ WellFormedLights
        /\ \A r \in Renderables : r.radius > 0) =>
        /\ value # Raised
        /\ Len(value) = 3

(***************************************************************************)
(* C5: no call of render, raycast or shading changes the camera, the       *)
(* light list or the renderable list, so render returns for (x, y, width,  *)
(* height) the colour it returns as the first call on the scene as it was  *)
(* described.                                                              *)
(***************************************************************************)
C5_Stateless ==
    phase # "setup" =>
        /\ renderer = scene0
        /\ Called("render") =>
              value = render(scene0, call.args[1], call.args[2], call.args[3], call.args[4])

\* a render call that hit a sphere and shaded it
C5_Witness ==
    Called("render") /\ IsHit(isect) /\ value # Raised /\ value # <<0, 0, 0>>

(***************************************************************************)
(* C6: raycast returns the nearest hit: its distance is <= the hit         *)
(* distance of every non-excluded renderable the ray intersects, among     *)
(* equal distances it is the hit of the first renderable in list order,    *)
(* and with no such renderable raycast returns the no-hit value.           *)
(***************************************************************************)
C6_NearestHit ==
    Called("raycast") =>
        IF CallCandidates = {} THEN isect = False
        ELSE /\ isect \in CallCandidates
             /\ \A h \in CallCandidates :
                   /\ isect.length <= h.length
                   /\ h.length = isect.length => isect.renderable.id <= h.renderable.id

\* the second renderable of the list is hit, nearer than the first one's hit
C6_Witness ==
    /\ Called("raycast") /\ IsHit(isect) /\ isect.renderable.id = 2
    /\ \E h \in CallCandidates : h.renderable.id = 1 /\ h.length > isect.length

(***************************************************************************)
(* C7: Sphere.intersect returns nothing when the discriminant is negative  *)
(* or both roots are negative; otherwise a record whose distance t is the  *)
(* smaller root if that is >= 0 and the larger root otherwise, with t >= 0 *)
(* and hit point = origin + t * direction.                                 *)
(***************************************************************************)
C7_SmallestNonNegativeRoot ==
    Called("intersect") =>
        IF CallD < 0 \/ \A r \in CallRoots : r < 0 THEN isect = None
        ELSE /\ IsHit(isect)
             /\ isect.length = IF SmallerRoot >= 0 THEN SmallerRoot ELSE LargerRoot
             /\ isect.length >= 0
             /\ \A r \in CallRoots : r >= 0 => isect.length <= r
             /\ isect.location = add(call.args[2], scale(isect.length, call.args[3]))
             /\ isect.renderable = CallSphere

\* a ray that starts outside the sphere and meets it twice in front
C7_Witness ==
    /\ Called("intersect") /\ IsHit(isect)
    /\ SmallerRoot > 0 /\ LargerRoot > SmallerRoot

(***************************************************************************)
(* C8: PhongLight.illumination never returns negative light: with the      *)
(* light's colour channels in [0,1] every channel of the result is >= 0,   *)
(* the result is max(0, normal . lightDirection) times the light's colour, *)
(* and it is zero in every channel when the normal faces strictly away     *)
(* from the light.                                                         *)
(***************************************************************************)
C8_NoNegativeLight ==
    (Called("illumination") /\ renderer.lights[call.args[1]].kind = "PhongLight"
        /\ value # Raised) =>
        LET i == call.args[1]
        IN  /\ WellFormedLights => \A k \in 1..3 : value[k] >= 0
            /\ \A k \in 1..3 :
                  value[k] = FMul(IF Cosine(i) > 0 THEN Cosine(i) ELSE 0,
                                  renderer.lights[i].specular[k])
            /\ Cosine(i) < 0 => value = <<0, 0, 0>>

\* a point whose normal faces away from a light that has colour
C8_Witness ==
    /\ Called("illumination") /\ renderer.lights[call.args[1]].kind = "PhongLight"
    /\ value = <<0, 0, 0>>
    /\ renderer.lights[call.args[1]].specular # Zero
    /\ Cosine(call.args[1]) < 0

(***************************************************************************)
(* C9: with a non-empty light list shading returns the sum of every        *)
(* light's contribution at the hit point divided by the number of lights,  *)
(* no light skipped; with one light contributing C, or n lights each       *)
(* contributing C, the result is C.                                        *)
(***************************************************************************)
C9_Average ==
    (Called("get_lighting") /\ renderer.lights # <<>> /\ value # Raised) =>
        LET n == Len(renderer.lights)
        IN  /\ \A k \in 1..3 :
                  /\ n * value[k] <= SumOfContributions(n)[k]
                  /\ SumOfContributions(n)[k] < n * value[k] + n
            /\ \A i \in 1..n :
                  (\A j \in 1..n : Contribution(j) = Contribution(i)) =>
                      value = Contribution(i)

\* two lights of different contributions shade a point, and one of them
\* contributes although another sphere lies between it and the point
C9_Witness ==
    /\ Called("get_lighting") /\ Len(renderer.lights) = 2 /\ value # Raised
    /\ Contribution(1) # Contribution(2)
    /\ \E i \in 1..2 :
          LET toLight == sub(renderer.lights[i].position, isect.location)
              shadow == raycast(renderer, isect.location, toLight, {isect.renderable})
          IN  /\ Contribution(i) # Zero
              /\ IsHit(shadow)
              /\ shadow.length < length(toLight)

(***************************************************************************)
(* C10: a Triangle built from three non-collinear vertices has a non-zero  *)
(* face normal, the normalised cross product of two of its edges, so       *)
(* perpendicular to both.                                                  *)
(***************************************************************************)
C10_FaceNormal ==
    call.name = "Triangle" =>
        /\ value # Raised
        /\ value # Zero
        /\ dot(value, sub(call.args[2], call.args[1])) = 0
        /\ dot(value, sub(call.args[3], call.args[1])) = 0

====
